---- MODULE Spec2Model ----
(***************************************************************************)
(* js-pdf-extractor: the PDF content pipeline (pdf-parser.ts, the          *)
(* pdf-parse v2 revision with the signature gate) and the extraction       *)
(* orchestrator (PdfDataExtractor with textModel / visionModel).           *)
(*                                                                         *)
(* One extractor is constructed and one extract call runs on it.  Every    *)
(* await of the code is a step: the action that completes an await runs    *)
(* the code up to the next await (or to the end of the call).  The         *)
(* external capabilities (fs.readFile, PDFParse.getText / getInfo /        *)
(* getScreenshot / destroy, ajv.compile, chat.completions.create) answer   *)
(* nondeterministically.                                                   *)
(*                                                                         *)
(* JS values: an optional field is a sequence of length <= 1 (<<>> is      *)
(* undefined); a text, a byte buffer and a message are sequences of        *)
(* one-character strings or of tokens; a thrown value is a record saying   *)
(* whether it is an Error and carrying its message as a sequence of parts  *)
(* (each wrapper prepends its prefix).                                     *)
(***************************************************************************)
EXTENDS Integers, Sequences, FiniteSets, TLC

---------------------------------------------------------------------------
(* Bounds *)

MaxTextLen == 2

MaxThreshold == 2

MaxPages == 2

MaxBufLen == 4

\* the extract calls that may be in flight on one extractor
NumCalls == 2

---------------------------------------------------------------------------
(* JS helpers *)

None == <<>>

Some(v) == <<v>>

IsSet(o) == o # <<>>

Get(o) == o[1]

\* a ?? d
Coalesce(o, d) == IF IsSet(o) THEN Get(o) ELSE d

\* a || d on an optional string: undefined and '' are falsy
OrElse(o, d) == IF IsSet(o) /\ Get(o) # "" THEN Get(o) ELSE d

\* !s on an optional string
Falsy(o) == ~IsSet(o) \/ Get(o) = ""

SeqsUpTo(S, n) == UNION {[1..k -> S] : k \in 0..n}

\* new Error(message)
Err(parts) == [isError |-> TRUE, msg |-> parts]

\* a thrown value that is not an instance of Error (throw 'cause')
NonError(cause) == [isError |-> FALSE, msg |-> <<cause>>]

\* catch (error) { if (error instanceof Error) throw new Error(`${prefix}${error.message}`); throw error; }
Rethrow(prefix, e) == IF e.isError THEN Err(<<prefix>> \o e.msg) ELSE e

Mentions(e, part) == \E i \in 1..Len(e.msg) : e.msg[i] = part

---------------------------------------------------------------------------
(* Messages *)

MsgApiKey == "OpenAI API key is required"

MsgMissingSource == "Either pdfPath or pdfBuffer must be provided"

PfxInvalidSchema == "Invalid JSON schema: "

MsgInvalidSchemaOther == "Invalid JSON schema provided"

MsgSchemaNotObject == "Schema must be a non-null object"

MsgSchemaEmpty == "Schema cannot be empty"

PfxSchemaValidation == "Schema validation failed: "

MsgInvalidPdf == "Invalid PDF: file does not contain PDF signature"

PfxReadPdf == "Failed to read PDF from path: "

PfxParsePdf == "Failed to parse PDF: "

PfxConvert == "Failed to convert PDF to images: "

MsgNoImages == "PDF conversion produced no images"

MsgVisionDisabled == "PDF contains no extractable text and vision mode is disabled"

PfxExtract == "Failed to extract data: "

MsgNoResponse == "No response from OpenAI API"

DefaultSystemPrompt == "You are a helpful assistant that extracts structured data from text. Extract the requested information accurately from the provided text."

TextInstruction == "Extract the following information from this text:\n\n"

VisionInstruction == "Extract the following structured information from these document pages:"

DataUrlPrefix == <<"data:image/png;base64", ",">>

HardcodedModel == "gpt-4o-mini"

DefaultTextThreshold == 100

---------------------------------------------------------------------------
(* Texts, buffers, pages *)

Whitespace == {" "}

TextChars == {"a"} \cup Whitespace

RECURSIVE TrimStart(_)
TrimStart(s) == IF s # <<>> /\ Head(s) \in Whitespace THEN TrimStart(Tail(s)) ELSE s

RECURSIVE TrimEnd(_)
TrimEnd(s) ==
  IF s # <<>> /\ s[Len(s)] \in Whitespace THEN TrimEnd(SubSeq(s, 1, Len(s) - 1)) ELSE s

\* String.prototype.trim
Trim(s) == TrimEnd(TrimStart(s))

\* pad whitespace, n letters, pad whitespace
PaddedText(pad, n) ==
  [i \in 1..(n + 2 * pad) |-> IF i <= pad \/ i > pad + n THEN " " ELSE "a"]

\* the texts the text-extraction capability may return: every short text, and
\* texts around the default threshold
Texts ==
  SeqsUpTo(TextChars, MaxTextLen)
    \cup {PaddedText(1, n) : n \in {DefaultTextThreshold - 1, DefaultTextThreshold}}

Thresholds == {None} \cup {Some(k) : k \in 0..MaxThreshold}

PdfSignature == <<"%", "P", "D", "F">>

\* contents a file on disk, or the buffer of an extract request, may have
FileContents ==
  { <<>>, <<"%", "P", "D">>, PdfSignature, PdfSignature \o <<"-">>,
    <<"x">> \o PdfSignature }

\* the buffers a caller may hand to parsePdfFromBuffer or validatePdf
Buffers == SeqsUpTo({"%", "P", "D", "F"}, MaxBufLen)

\* the signature check comparing only the first three bytes
isValidPdfSignature_ThreeBytes(buffer) ==
  IF Len(buffer) < 3 THEN FALSE ELSE SubSeq(buffer, 1, 3) = SubSeq(PdfSignature, 1, 3)

\* the signature check accepting the signature anywhere in the buffer
isValidPdfSignature_Includes(buffer) ==
  \E i \in 1..Len(buffer) :
    i + 3 <= Len(buffer) /\ SubSeq(buffer, i, i + 3) = PdfSignature

\* function isValidPdfSignature(buffer); the callers pass a Buffer object, which
\* is truthy even when empty, so !buffer is false
isValidPdfSignature(buffer) ==
  IF Len(buffer) < 4 THEN FALSE ELSE SubSeq(buffer, 1, 4) = PdfSignature

\* hasExtractableText comparing the untrimmed length
hasExtractableText_Untrimmed(text, threshold) ==
  IF text = <<>> THEN FALSE ELSE Len(text) >= threshold

\* function hasExtractableText(text, threshold)
hasExtractableText(text, threshold) ==
  IF text = <<>> THEN FALSE ELSE Len(Trim(text)) >= threshold

\* the payload of page n as the rasterizer encodes it
PagePayload(n) == <<"iVBORw0KGgo", ToString(n)>>

\* the data URL getScreenshot({imageDataUrl: true}) gives for page n
PageDataUrl(n) == DataUrlPrefix \o PagePayload(n)

\* dataUrl.split(',')[1]: the tokens between the first and the second comma,
\* undefined when there is no comma
RECURSIVE UpToComma(_)
UpToComma(s) ==
  IF s = <<>> \/ Head(s) = "," THEN <<>> ELSE <<Head(s)>> \o UpToComma(Tail(s))

RECURSIVE AfterComma(_)
AfterComma(s) ==
  IF s = <<>> THEN None
  ELSE IF Head(s) = "," THEN Some(UpToComma(Tail(s))) ELSE AfterComma(Tail(s))

\* page.dataUrl?.split(',')[1] || ''
Base64Of(dataUrl) ==
  IF ~IsSet(dataUrl) THEN <<>>
  ELSE LET part == AfterComma(Get(dataUrl)) IN IF IsSet(part) THEN Get(part) ELSE <<>>

\* the page sets a rasterization may yield: any pages of 1..MaxPages in page
\* order, each with or without its data URL
RECURSIVE PageLists(_)
PageLists(from) ==
  IF from > MaxPages THEN {<<>>}
  ELSE LET rest == PageLists(from + 1) IN
       rest \cup {<<[pageNumber |-> from, dataUrl |-> u]>> \o r :
                    u \in {None, Some(PageDataUrl(from))}, r \in rest}

Screenshots == PageLists(1)

\* result.pages.map(page => ({page: page.pageNumber, base64: ...}))
ToImages(pages) ==
  [i \in 1..Len(pages) |->
     [page |-> pages[i].pageNumber, base64 |-> Base64Of(pages[i].dataUrl)]]

InfoResults == {[total |-> n, info |-> "metadata"] : n \in {1, MaxPages}}

---------------------------------------------------------------------------
(* Configurations, requests, capability answers *)

BaseConfig ==
  [openaiApiKey |-> Some("sk-test"), model |-> None, textModel |-> None,
   visionModel |-> None, visionEnabled |-> None, textThreshold |-> None,
   systemPrompt |-> None, defaultTemperature |-> None]

\* ExtractorConfig values: every combination of the three model fields (unset,
\* empty, named), every combination of visionEnabled and textThreshold, the
\* system prompts, the default temperatures, and the API keys
Configs ==
  {[BaseConfig EXCEPT !.model = m, !.textModel = t, !.visionModel = v] :
     m \in {None, Some(""), Some("gpt-4")},
     t \in {None, Some(""), Some("gpt-4-turbo")},
     v \in {None, Some(""), Some("gpt-4o")}}
  \cup {[BaseConfig EXCEPT !.visionEnabled = e, !.textThreshold = k] :
          e \in {None, Some(TRUE), Some(FALSE)}, k \in Thresholds}
  \cup {[BaseConfig EXCEPT !.systemPrompt = p] : p \in {Some(""), Some("Custom prompt")}}
  \cup {[BaseConfig EXCEPT !.defaultTemperature = t] : t \in {Some(0), Some(5)}}
  \cup {[BaseConfig EXCEPT !.openaiApiKey = a] : a \in {None, Some("")}}

\* schema values: what validateSchema looks at (null or not, array or not, the
\* number of keys) and whether ajv.compile accepts the schema
Schemas ==
  { [kind |-> "null", keys |-> 0, compiles |-> FALSE],
    [kind |-> "array", keys |-> 0, compiles |-> FALSE],
    [kind |-> "object", keys |-> 0, compiles |-> TRUE],
    [kind |-> "object", keys |-> 1, compiles |-> FALSE],
    [kind |-> "object", keys |-> 1, compiles |-> TRUE] }

RequestBuffers == {None, Some(<<"%", "P", "D">>), Some(PdfSignature \o <<"-">>)}

BaseRequest ==
  [schema |-> [kind |-> "object", keys |-> 1, compiles |-> TRUE], pdfPath |-> None,
   pdfBuffer |-> Some(PdfSignature \o <<"-">>), temperature |-> None, maxTokens |-> None]

\* temperatures in tenths: 0, 0.7, and 2.5, which is outside the documented 0-2
Temperatures == {None, Some(0), Some(7), Some(25)}

\* ExtractionOptions values: every schema with every source, and every
\* temperature and maxTokens with a valid schema and buffer
Requests ==
  [schema : Schemas, pdfPath : {None, Some(""), Some("doc.pdf")},
   pdfBuffer : RequestBuffers, temperature : {None}, maxTokens : {None}]
  \cup {[BaseRequest EXCEPT !.temperature = t, !.maxTokens = m] :
          t \in Temperatures, m \in {None, Some(500)}}

\* what a failing pdf-parse or OpenAI call may throw
Failures(cause) == {Err(<<cause>>), NonError(cause)}

JsonText == "{\"invoiceNumber\":\"INV-1\"}"

\* chat.completions.create answers: choices[0]?.message?.content, usage, model
Completions ==
  [content : {None, Some(""), Some("not json"), Some(JsonText)},
   usage : {None, Some([total_tokens |-> 42])}, model : {"gpt-4o-mini-2024-07-18"}]

\* JSON.parse(content): the parsed value, or <<>> for a SyntaxError
JsonParse(content) ==
  IF content = JsonText THEN Some([invoiceNumber |-> "INV-1"]) ELSE None

---------------------------------------------------------------------------
(* Completions of a call or of a try block *)

Returned(v) == [kind |-> "returned", value |-> v]

Thrown(e) == [kind |-> "thrown", error |-> e]

\* where a step leaves the call: the next await (pc), the result if the call
\* ended, the model request if one was sent, the capability calls so far
Exit(p, o, r, tr) == [pc |-> p, outcome |-> o, request |-> r, calls |-> tr]

Ends(o, r, tr) == Exit("done", Some(o), r, tr)

\* the call suspends at position p on capability call c
Awaits(p, c, r, tr) == Exit(p, None, r, Append(tr, c))

---------------------------------------------------------------------------
(* schema-validator.ts *)

\* validateSchema(schema): <<>> when it returns true, else what it throws
validateSchema(schema) ==
  IF schema.kind # "object" THEN Some(Err(<<MsgSchemaNotObject>>))
  ELSE IF schema.keys = 0 THEN Some(Err(<<MsgSchemaEmpty>>))
  ELSE IF ~schema.compiles
    THEN Some(Rethrow(PfxSchemaValidation, Err(<<"schema is invalid">>)))
  ELSE None

---------------------------------------------------------------------------
(* PdfDataExtractor *)

\* the constructor taking the default prompt for an empty systemPrompt as well
NewExtractor_PromptOrDefault(cfg) ==
  LET defaultModel == OrElse(cfg.model, HardcodedModel) IN
  [config |-> [cfg EXCEPT
                 !.visionEnabled = Some(Coalesce(cfg.visionEnabled, TRUE)),
                 !.textThreshold = Some(Coalesce(cfg.textThreshold, DefaultTextThreshold))],
   systemPrompt |-> OrElse(cfg.systemPrompt, DefaultSystemPrompt),
   model |-> defaultModel,
   textModel |-> OrElse(cfg.textModel, defaultModel),
   visionModel |-> OrElse(cfg.visionModel, defaultModel)]

\* the constructor resolving the vision model from the text model's fallback chain
NewExtractor_SharedFallback(cfg) ==
  LET defaultModel == OrElse(cfg.model, HardcodedModel)
      textModel == OrElse(cfg.textModel, defaultModel) IN
  [config |-> [cfg EXCEPT
                 !.visionEnabled = Some(Coalesce(cfg.visionEnabled, TRUE)),
                 !.textThreshold = Some(Coalesce(cfg.textThreshold, DefaultTextThreshold))],
   systemPrompt |-> Coalesce(cfg.systemPrompt, DefaultSystemPrompt),
   model |-> defaultModel,
   textModel |-> textModel,
   visionModel |-> OrElse(cfg.visionModel, textModel)]

\* constructor(cfg), after the API key check
NewExtractor(cfg) ==
  LET defaultModel == OrElse(cfg.model, HardcodedModel) IN
  [config |-> [cfg EXCEPT
                 !.visionEnabled = Some(Coalesce(cfg.visionEnabled, TRUE)),
                 !.textThreshold = Some(Coalesce(cfg.textThreshold, DefaultTextThreshold))],
   systemPrompt |-> Coalesce(cfg.systemPrompt, DefaultSystemPrompt),
   model |-> defaultModel,
   textModel |-> OrElse(cfg.textModel, defaultModel),
   visionModel |-> OrElse(cfg.visionModel, defaultModel)]

StringPart(tokens) == [type |-> "string", body |-> tokens]

TextPart(tokens) == [type |-> "text", body |-> tokens]

ImagePart(url) == [type |-> "image_url", body |-> url]

\* the messages array: the system message only if systemPrompt is not empty
Messages(this, userContent) ==
  (IF this.systemPrompt # ""
     THEN <<[role |-> "system", content |-> <<StringPart(<<this.systemPrompt>>)>>]>>
     ELSE <<>>)
  \o <<[role |-> "user", content |-> userContent]>>

\* the image loop pushing the pages in reverse order
ImageParts_Reversed(images) ==
  [i \in 1..Len(images) |->
     [type |-> "image_url", body |-> DataUrlPrefix \o images[Len(images) + 1 - i].base64]]

\* for (const img of images) content.push({type: 'image_url', ...})
ImageParts(images) ==
  [i \in 1..Len(images) |-> ImagePart(DataUrlPrefix \o images[i].base64)]

\* extractFromText up to its await: the request it sends
TextRequest(this, text, schema, options) ==
  [model |-> this.textModel,
   messages |-> Messages(this, <<StringPart(<<TextInstruction>> \o text)>>),
   schema |-> schema,
   temperature |-> Coalesce(options.temperature, 0),
   max_tokens |-> options.maxTokens]

\* extractFromImages up to its await: the request it sends
VisionRequest(this, images, schema, options) ==
  [model |-> this.visionModel,
   messages |-> Messages(this, <<TextPart(<<VisionInstruction>>)>> \o ImageParts(images)),
   schema |-> schema,
   temperature |-> IF IsSet(options.temperature) /\ Get(options.temperature) # 0
                     THEN Get(options.temperature) ELSE 0,
   max_tokens |-> options.maxTokens]

\* the catch reporting the failure without its cause
ExtractFails_NoCause(e, r, tr) == Ends(Thrown(Err(<<"Failed to extract data">>)), r, tr)

\* extract's catch around the model call
ExtractFails(e, r, tr) == Ends(Thrown(Rethrow(PfxExtract, e)), r, tr)

\* extractFromImages: the vision check before anything is built
extractFromImages(this, images, schema, options, tr) ==
  IF this.config.visionEnabled = Some(FALSE)
    THEN ExtractFails(Err(<<MsgVisionDisabled>>), None, tr)
    ELSE Awaits("create", "create", Some(VisionRequest(this, images, schema, options)), tr)

extractFromText(this, text, schema, options, tr) ==
  Awaits("create", "create", Some(TextRequest(this, text, schema, options)), tr)

\* extract after parsePdf resolved: the branch on the content type
ExtractDispatch(this, options, parsedPdf, tr) ==
  IF parsedPdf.content.type = "text"
    THEN extractFromText(this, parsedPdf.content.content, options.schema, options, tr)
    ELSE extractFromImages(this, parsedPdf.content.content, options.schema, options, tr)

\* the content check testing for a missing content only, not for an empty one
ExtractResult_NullOnly(completion, r, tr) ==
  IF ~IsSet(completion.content) THEN ExtractFails(Err(<<MsgNoResponse>>), r, tr)
  ELSE LET data == JsonParse(Get(completion.content)) IN
       IF ~IsSet(data) THEN ExtractFails(Err(<<"Unexpected token in JSON">>), r, tr)
       ELSE Ends(Returned([data |-> Get(data),
                           tokensUsed |-> IF IsSet(completion.usage)
                                            THEN Some(Get(completion.usage).total_tokens)
                                            ELSE None,
                           model |-> completion.model]), r, tr)

\* the result naming the model the request asked for
ExtractResult_ConfiguredModel(completion, r, tr) ==
  IF Falsy(completion.content) THEN ExtractFails(Err(<<MsgNoResponse>>), r, tr)
  ELSE LET data == JsonParse(Get(completion.content)) IN
       IF ~IsSet(data) THEN ExtractFails(Err(<<"Unexpected token in JSON">>), r, tr)
       ELSE Ends(Returned([data |-> Get(data),
                           tokensUsed |-> IF IsSet(completion.usage)
                                            THEN Some(Get(completion.usage).total_tokens)
                                            ELSE None,
                           model |-> Get(r).model]), r, tr)

\* the rest of extractFromText / extractFromImages once create resolved
ExtractResult(completion, r, tr) ==
  IF Falsy(completion.content) THEN ExtractFails(Err(<<MsgNoResponse>>), r, tr)
  ELSE LET data == JsonParse(Get(completion.content)) IN
       IF ~IsSet(data) THEN ExtractFails(Err(<<"Unexpected token in JSON">>), r, tr)
       ELSE Ends(Returned([data |-> Get(data),
                           tokensUsed |-> IF IsSet(completion.usage)
                                            THEN Some(Get(completion.usage).total_tokens)
                                            ELSE None,
                           model |-> completion.model]), r, tr)

---------------------------------------------------------------------------
(* src/extractor.ts: the extractor with one model for both modes *)

\* the characters of the model identifiers
Gpt4o == <<"g", "p", "t", "-", "4", "o">>

Gpt4oMini == <<"g", "p", "t", "-", "4", "o", "-", "m", "i", "n", "i">>

Gpt4Turbo == <<"g", "p", "t", "-", "4", "-", "t", "u", "r", "b", "o">>

Gpt4VisionPreview == <<"g", "p", "t", "-", "4", "-", "v", "i", "s", "i", "o", "n", "-", "p", "r", "e", "v", "i", "e", "w">>

Claude35Sonnet == <<"c", "l", "a", "u", "d", "e", "-", "3", "-", "5", "-", "s", "o", "n", "n", "e", "t">>

Claude3Opus == <<"c", "l", "a", "u", "d", "e", "-", "3", "-", "o", "p", "u", "s">>

Gemini15Pro == <<"g", "e", "m", "i", "n", "i", "-", "1", ".", "5", "-", "p", "r", "o">>

\* a text-only model, a bare 'gpt-4', and a vision model named in capitals
Gpt35Turbo == <<"g", "p", "t", "-", "3", ".", "5", "-", "t", "u", "r", "b", "o">>

Gpt4 == <<"g", "p", "t", "-", "4">>

Gpt4oCapitals == <<"G", "P", "T", "-", "4", "O">>

\* String.prototype.toLowerCase on one character
LowerChar(ch) ==
  CASE ch = "A" -> "a"
    [] ch = "B" -> "b"
    [] ch = "C" -> "c"
    [] ch = "D" -> "d"
    [] ch = "E" -> "e"
    [] ch = "F" -> "f"
    [] ch = "G" -> "g"
    [] ch = "H" -> "h"
    [] ch = "I" -> "i"
    [] ch = "J" -> "j"
    [] ch = "K" -> "k"
    [] ch = "L" -> "l"
    [] ch = "M" -> "m"
    [] ch = "N" -> "n"
    [] ch = "O" -> "o"
    [] ch = "P" -> "p"
    [] ch = "Q" -> "q"
    [] ch = "R" -> "r"
    [] ch = "S" -> "s"
    [] ch = "T" -> "t"
    [] ch = "U" -> "u"
    [] ch = "V" -> "v"
    [] ch = "W" -> "w"
    [] ch = "X" -> "x"
    [] ch = "Y" -> "y"
    [] ch = "Z" -> "z"
    [] OTHER -> ch

ToLowerCase(str) == [i \in 1..Len(str) |-> LowerChar(str[i])]

\* String.prototype.includes
Includes(str, part) ==
  \E i \in 0..(Len(str) - Len(part)) : SubSeq(str, i + 1, i + Len(part)) = part

\* the visionModels array of isVisionCapableModel
VisionModels ==
  {Gpt4o, Gpt4oMini, Gpt4Turbo, Gpt4VisionPreview, Claude35Sonnet, Claude3Opus, Gemini15Pro}

\* the check comparing the model name as written, capitals included
isVisionCapableModel_CaseSensitive(model) ==
  \E vm \in VisionModels : Includes(model, vm)

\* isVisionCapableModel(), for this.model
isVisionCapableModel(model) ==
  LET modelLower == ToLowerCase(model) IN
  \E vm \in VisionModels : Includes(modelLower, ToLowerCase(vm))

\* `Model '${this.model}' does not support vision. Please use ...`
MsgNoVision(model) ==
  <<"Model '">> \o model \o <<"' does not support vision. Please use a vision-capable model like gpt-4o or gpt-4o-mini for scanned PDFs.">>

\* schema[key], <<>> when the schema has no such key
Field(schema, key) == IF key \in DOMAIN schema THEN Some(schema[key]) ELSE None

\* the schema validateSchema hands to ajv.compile: the schema itself when it has
\* a type or a properties field (the values used here are all truthy), else the
\* schema wrapped as the properties of an object
SchemaToValidate(schema) ==
  IF IsSet(Field(schema, "type")) \/ IsSet(Field(schema, "properties")) THEN schema
  ELSE [type |-> "object", properties |-> schema]

\* formatSchemaForOpenAI(schema); required holds Object.keys(schema)
formatSchemaForOpenAI(schema) ==
  IF Field(schema, "type") = Some("object") /\ IsSet(Field(schema, "properties")) THEN schema
  ELSE [type |-> "object", properties |-> schema, required |-> DOMAIN schema,
        additionalProperties |-> FALSE]

\* the constructor: this.model = config.model || 'gpt-4o-mini'
SingleModelExtractor(cfg) ==
  [model |-> IF IsSet(cfg.model) /\ Get(cfg.model) # <<>> THEN Get(cfg.model) ELSE Gpt4oMini,
   config |-> cfg]

SingleModelTextSystem ==
  "You are a helpful assistant that extracts structured data from text. Extract the requested information accurately from the provided text."

SingleModelVisionSystem ==
  "You are a helpful assistant that extracts structured data from documents. Extract the requested information accurately from the provided document images."

\* extractFromText of the single-model extractor up to its await
SingleModelTextRequest(this, text, schema, options) ==
  [model |-> this.model,
   messages |-> <<[role |-> "system", content |-> <<StringPart(<<SingleModelTextSystem>>)>>],
                  [role |-> "user", content |-> <<StringPart(<<TextInstruction>> \o text)>>]>>,
   schema |-> schema,
   temperature |-> Coalesce(options.temperature, 1),
   max_tokens |-> options.maxTokens]

\* extractFromImages of the single-model extractor: the two checks, then the request
SingleModelVisionRequest(this, images, schema, options) ==
  [model |-> this.model,
   messages |-> <<[role |-> "system", content |-> <<StringPart(<<SingleModelVisionSystem>>)>>],
                  [role |-> "user",
                   content |-> <<TextPart(<<VisionInstruction>>)>> \o ImageParts(images)]>>,
   schema |-> schema,
   temperature |-> Coalesce(options.temperature, 1),
   max_tokens |-> options.maxTokens]

SingleModelFromImages(this, images, schema, options, tr) ==
  IF this.config.visionEnabled = Some(FALSE)
    THEN ExtractFails(Err(<<MsgVisionDisabled>>), None, tr)
  ELSE IF ~isVisionCapableModel(this.model)
    THEN ExtractFails(Err(MsgNoVision(this.model)), None, tr)
  ELSE Awaits("create", "create", Some(SingleModelVisionRequest(this, images, schema, options)), tr)

\* extract of the single-model extractor after parsePdf resolved
SingleModelDispatch(this, options, parsedPdf, tr) ==
  LET formattedSchema == formatSchemaForOpenAI(options.schema.fields) IN
  IF parsedPdf.content.type = "text"
    THEN Awaits("create", "create",
                Some(SingleModelTextRequest(this, parsedPdf.content.content, formattedSchema,
                                            options)), tr)
    ELSE SingleModelFromImages(this, parsedPdf.content.content, formattedSchema, options, tr)

---------------------------------------------------------------------------
(* pdf-parser.ts *)

\* the rejection of parsePdf caught by the catch around the model call as well
ParseRejects_Wrapped(v, e, tr) ==
  Ends(Thrown(Rethrow(PfxExtract, IF v = "path" THEN Rethrow(PfxReadPdf, e) ELSE e)), None, tr)

\* parsePdf rejects with e; inside parsePdfFromPath its catch wraps it
ParseRejects(v, e, tr) ==
  Ends(Thrown(IF v = "path" THEN Rethrow(PfxReadPdf, e) ELSE e), None, tr)

\* parsePdf resolves: to the caller of the standalone function, or into extract
ParseResolves(c, this, opts, parsedPdf, tr) ==
  IF c = "extract" THEN ExtractDispatch(Get(this), Get(opts), parsedPdf, tr)
  ELSE IF c = "extractSingleModel" THEN SingleModelDispatch(Get(this), Get(opts), parsedPdf, tr)
  ELSE Ends(Returned(parsedPdf), None, tr)

\* parsePdfFromBuffer up to its first await: the signature gate
parsePdfFromBufferEntry(v, buf, tr) ==
  IF ~isValidPdfSignature(buf) THEN ParseRejects(v, Err(<<MsgInvalidPdf>>), tr)
  ELSE Awaits("getText", "getText", None, tr)

\* the Text content carrying the trimmed text
ParsedText_Trimmed(text, infoResult) ==
  [content |-> [type |-> "text", content |-> Trim(text)],
   numPages |-> infoResult.total, info |-> infoResult.info]

ParsedText(text, infoResult) ==
  [content |-> [type |-> "text", content |-> text],
   numPages |-> infoResult.total, info |-> infoResult.info]

ParsedImages(images, infoResult) ==
  [content |-> [type |-> "images", content |-> images],
   numPages |-> infoResult.total, info |-> infoResult.info]

\* parsePdfFromBuffer's catch
ParseCatch(e) == Thrown(Rethrow(PfxParsePdf, e))

\* convertPdfToImages's catch
ConvertCatch(e) == Thrown(Rethrow(PfxConvert, e))

\* convertPdfToImages after getScreenshot resolved, up to its finally
ConvertResult(pages) ==
  LET images == ToImages(pages) IN
  IF Len(images) = 0 THEN ConvertCatch(Err(<<MsgNoImages>>)) ELSE Returned(images)

---------------------------------------------------------------------------
(* State *)

VARIABLES
  pc,          \* where the call is suspended: "start", "idle", an await, "done"
  caller,      \* the exported function that was called
  config,      \* the ExtractorConfig given to the constructor
  extractor,   \* the PdfDataExtractor, once constructed
  options,     \* extract's ExtractionOptions
  input,       \* the path or buffer given to a standalone parsePdf / validatePdf
  via,         \* "path" inside parsePdfFromPath, "buffer" for a direct parsePdfFromBuffer
  threshold,   \* options?.textThreshold of the parse call
  buffer,      \* the bytes being parsed
  textResult,  \* getText's result
  infoResult,  \* getInfo's result
  screenshotResult, \* getScreenshot's result
  pending,     \* the completion of the try block whose finally is running
  request,     \* the request sent to chat.completions.create
  completion,  \* its answer
  outcome,     \* how the call ended
  calls,       \* the capability calls started so far, in order
  lastSet,     \* the latest model mutator call: the slot it names and its argument
  inflight     \* the extract calls in flight on one extractor at the same time

vars ==
  <<pc, caller, config, extractor, options, input, via, threshold, buffer, textResult,
    infoResult, screenshotResult, pending, request, completion, outcome, calls,
    lastSet, inflight>>

\* an extract call that has not been made yet: its local variables
NotStarted ==
  [pc |-> "idle", outcome |-> None, request |-> None, calls |-> <<>>, options |-> None,
   via |-> "none", threshold |-> None, buffer |-> None, textResult |-> None,
   infoResult |-> None, pending |-> None, completion |-> None, replies |-> <<>>]

Init ==
  /\ pc = "start"
  /\ caller = "none"
  /\ config = None
  /\ extractor = None
  /\ options = None
  /\ input = None
  /\ via = "none"
  /\ threshold = None
  /\ buffer = None
  /\ textResult = None
  /\ infoResult = None
  /\ screenshotResult = None
  /\ pending = None
  /\ request = None
  /\ completion = None
  /\ outcome = None
  /\ calls = <<>>
  /\ lastSet = None
  /\ inflight = [i \in 1..NumCalls |-> NotStarted]

Leave(x) ==
  /\ pc' = x.pc
  /\ outcome' = x.outcome
  /\ request' = x.request
  /\ calls' = x.calls
  /\ UNCHANGED <<lastSet, inflight>>

\* the constructor rejecting an absent key only, not an empty one
New_AbsentOnly(cfg) ==
  /\ pc = "start"
  /\ config' = Some(cfg)
  /\ IF ~IsSet(cfg.openaiApiKey)
       THEN /\ caller' = "new"
            /\ extractor' = extractor
            /\ Leave(Ends(Thrown(Err(<<MsgApiKey>>)), None, calls))
       ELSE /\ caller' = caller
            /\ extractor' = Some(NewExtractor(cfg))
            /\ Leave(Exit("idle", None, None, calls))
  /\ UNCHANGED <<options, input, via, threshold, buffer, textResult, infoResult,
                 pending, completion, screenshotResult>>

\* new PdfDataExtractor(cfg)
New(cfg) ==
  /\ pc = "start"
  /\ config' = Some(cfg)
  /\ IF Falsy(cfg.openaiApiKey)
       THEN /\ caller' = "new"
            /\ extractor' = extractor
            /\ Leave(Ends(Thrown(Err(<<MsgApiKey>>)), None, calls))
       ELSE /\ caller' = caller
            /\ extractor' = Some(NewExtractor(cfg))
            /\ Leave(Exit("idle", None, None, calls))
  /\ UNCHANGED <<options, input, via, threshold, buffer, textResult, infoResult,
                 pending, completion,
                 screenshotResult>>

\* the requests tried on an extractor: every request on the default
\* configuration, the plain buffer request on the others
RequestsFor(this) ==
  IF this = None THEN {}
  ELSE IF Get(this) = NewExtractor(BaseConfig) THEN Requests ELSE {BaseRequest}

\* the source check rejecting a request that supplies both sources as well
MissingSource_ExactlyOne(opts) == Falsy(opts.pdfPath) = ~IsSet(opts.pdfBuffer)

\* !options.pdfPath && !options.pdfBuffer
MissingSource(opts) == Falsy(opts.pdfPath) /\ ~IsSet(opts.pdfBuffer)

\* the catch dropping the validator's message
SchemaError_NoCause(e) == Err(<<MsgInvalidSchemaOther>>)

\* extract's catch around validateSchema
SchemaError(e) ==
  IF e.isError THEN Err(<<PfxInvalidSchema>> \o e.msg) ELSE Err(<<MsgInvalidSchemaOther>>)

\* the input validation with the schema validated before the source check
ExtractChecks_SchemaFirst(opts) ==
  LET invalid == validateSchema(opts.schema) IN
  IF IsSet(invalid) THEN Some(SchemaError(Get(invalid)))
  ELSE IF MissingSource(opts) THEN Some(Err(<<MsgMissingSource>>))
  ELSE None

\* extract's input validation: what it throws, <<>> when the inputs pass
ExtractChecks(opts) ==
  LET invalid == validateSchema(opts.schema) IN
  IF MissingSource(opts) THEN Some(Err(<<MsgMissingSource>>))
  ELSE IF IsSet(invalid) THEN Some(SchemaError(Get(invalid)))
  ELSE None

\* extractor.extract(opts), up to its first await
Extract(opts) ==
  /\ pc = "idle"
  /\ caller' = "extract"
  /\ options' = Some(opts)
  /\ LET this == Get(extractor)
         rejected == ExtractChecks(opts) IN
     IF IsSet(rejected)
       THEN /\ Leave(Ends(Thrown(Get(rejected)), None, calls))
            /\ UNCHANGED <<via, threshold, buffer,
                 screenshotResult>>
     ELSE IF ~Falsy(opts.pdfPath)
       THEN /\ via' = "path"
            /\ threshold' = this.config.textThreshold
            /\ buffer' = buffer
            /\ Leave(Awaits("readFile", "readFile", None, calls))
       ELSE /\ via' = "buffer"
            /\ threshold' = this.config.textThreshold
            /\ buffer' = opts.pdfBuffer
            /\ Leave(parsePdfFromBufferEntry("buffer", Get(opts.pdfBuffer), calls))
  /\ UNCHANGED <<config, extractor, input, textResult, infoResult, pending, completion,
                 screenshotResult>>

\* parsePdfFromPath(path, {textThreshold: th}) called on its own
ParsePdfFromPath(path, th) ==
  /\ pc = "start"
  /\ caller' = "parse"
  /\ input' = Some([kind |-> "path", path |-> path, bytes |-> <<>>])
  /\ via' = "path"
  /\ threshold' = th
  /\ Leave(Awaits("readFile", "readFile", None, calls))
  /\ UNCHANGED <<config, extractor, options, buffer, textResult, infoResult, pending, completion,
                 screenshotResult>>

\* parsePdfFromBuffer(buf, {textThreshold: th}) called on its own
ParsePdfFromBuffer(buf, th) ==
  /\ pc = "start"
  /\ caller' = "parse"
  /\ input' = Some([kind |-> "buffer", path |-> "", bytes |-> buf])
  /\ via' = "buffer"
  /\ threshold' = th
  /\ buffer' = Some(buf)
  /\ Leave(parsePdfFromBufferEntry("buffer", buf, calls))
  /\ UNCHANGED <<config, extractor, options, textResult, infoResult, pending, completion,
                 screenshotResult>>

\* validatePdf(buf) for a buffer: no await
ValidatePdfBuffer(buf) ==
  /\ pc = "start"
  /\ caller' = "validate"
  /\ input' = Some([kind |-> "buffer", path |-> "", bytes |-> buf])
  /\ Leave(Ends(Returned(isValidPdfSignature(buf)), None, calls))
  /\ UNCHANGED <<config, extractor, options, via, threshold, buffer, textResult, infoResult,
                 pending, completion,
                 screenshotResult>>

\* validatePdf(path) for a path, up to its await
ValidatePdfPath(path) ==
  /\ pc = "start"
  /\ caller' = "validate"
  /\ input' = Some([kind |-> "path", path |-> path, bytes |-> <<>>])
  /\ Leave(Awaits("readFile", "readFile", None, calls))
  /\ UNCHANGED <<config, extractor, options, via, threshold, buffer, textResult, infoResult,
                 pending, completion,
                 screenshotResult>>

\* fs.promises.readFile rejects
ReadFileFails ==
  /\ pc = "readFile"
  /\ LET e == Err(<<"ENOENT: no such file or directory">>) IN
     IF caller = "validate" THEN Leave(Ends(Returned(FALSE), None, calls))
     ELSE Leave(ParseRejects("path", e, calls))
  /\ UNCHANGED <<caller, config, extractor, options, input, via, threshold, buffer, textResult,
                 infoResult, pending, completion,
                 screenshotResult>>

\* fs.promises.readFile resolves with the file's bytes
ReadFileDone(bytes) ==
  /\ pc = "readFile"
  /\ buffer' = Some(bytes)
  /\ IF caller = "validate"
       THEN Leave(Ends(Returned(isValidPdfSignature(bytes)), None, calls))
       ELSE Leave(parsePdfFromBufferEntry("path", bytes, calls))
  /\ UNCHANGED <<caller, config, extractor, options, input, via, threshold, textResult,
                 infoResult, pending, completion,
                 screenshotResult>>

\* the try block of parsePdfFromBuffer completed with c: its finally starts
ParseFinally(c) ==
  /\ pending' = Some(c)
  /\ Leave(Awaits("finallyDestroy", "destroy", None, calls))

\* parser.getText() rejects
GetTextFails(e) ==
  /\ pc = "getText"
  /\ ParseFinally(ParseCatch(e))
  /\ UNCHANGED <<caller, config, extractor, options, input, via, threshold, buffer, textResult,
                 infoResult, completion,
                 screenshotResult>>

\* parser.getText() resolves
GetTextDone(text) ==
  /\ pc = "getText"
  /\ textResult' = Some(text)
  /\ Leave(Awaits("getInfo", "getInfo", None, calls))
  /\ UNCHANGED <<caller, config, extractor, options, input, via, threshold, buffer, infoResult,
                 pending, completion,
                 screenshotResult>>

\* parser.getInfo() rejects
GetInfoFails(e) ==
  /\ pc = "getInfo"
  /\ ParseFinally(ParseCatch(e))
  /\ UNCHANGED <<caller, config, extractor, options, input, via, threshold, buffer, textResult,
                 infoResult, completion,
                 screenshotResult>>

\* parser.getInfo() resolves: the routing decision
GetInfoDone(info) ==
  /\ pc = "getInfo"
  /\ infoResult' = Some(info)
  /\ IF hasExtractableText(Get(textResult), Coalesce(threshold, DefaultTextThreshold))
       THEN ParseFinally(Returned(ParsedText(Get(textResult), info)))
       ELSE /\ pending' = pending
            /\ Leave(Awaits("destroyText", "destroy", None, calls))
  /\ UNCHANGED <<caller, config, extractor, options, input, via, threshold, buffer, textResult,
                 completion,
                 screenshotResult>>

\* the parser.destroy() before the conversion rejects
DestroyTextFails(e) ==
  /\ pc = "destroyText"
  /\ ParseFinally(ParseCatch(e))
  /\ UNCHANGED <<caller, config, extractor, options, input, via, threshold, buffer, textResult,
                 infoResult, completion,
                 screenshotResult>>

\* it resolves: convertPdfToImages(buffer) up to its await
DestroyTextDone ==
  /\ pc = "destroyText"
  /\ Leave(Awaits("getScreenshot", "getScreenshot", None, calls))
  /\ UNCHANGED <<caller, config, extractor, options, input, via, threshold, buffer, textResult,
                 infoResult, pending, completion,
                 screenshotResult>>

\* the try block of convertPdfToImages completed with c: its finally starts
ConvertFinally(c) ==
  /\ pending' = Some(c)
  /\ Leave(Awaits("destroyImage", "destroy", None, calls))

\* parser.getScreenshot() rejects
GetScreenshotFails(e) ==
  /\ pc = "getScreenshot"
  /\ ConvertFinally(ConvertCatch(e))
  /\ UNCHANGED <<caller, config, extractor, options, input, via, threshold, buffer, textResult,
                 infoResult, completion,
                 screenshotResult>>

\* parser.getScreenshot() resolves
GetScreenshotDone(pages) ==
  /\ pc = "getScreenshot"
  /\ screenshotResult' = Some(pages)
  /\ ConvertFinally(ConvertResult(pages))
  /\ UNCHANGED <<caller, config, extractor, options, input, via, threshold, buffer, textResult,
                 infoResult, completion>>

\* the image parser's destroy() in convertPdfToImages's finally rejects: the
\* rejection replaces the conversion's completion
DestroyImageFails(e) ==
  /\ pc = "destroyImage"
  /\ ParseFinally(ParseCatch(e))
  /\ UNCHANGED <<caller, config, extractor, options, input, via, threshold, buffer, textResult,
                 infoResult, completion,
                 screenshotResult>>

\* it resolves: convertPdfToImages completes, back in parsePdfFromBuffer
DestroyImageDone ==
  /\ pc = "destroyImage"
  /\ LET c == Get(pending) IN
     IF c.kind = "thrown" THEN ParseFinally(ParseCatch(c.error))
     ELSE ParseFinally(Returned(ParsedImages(c.value, Get(infoResult))))
  /\ UNCHANGED <<caller, config, extractor, options, input, via, threshold, buffer, textResult,
                 infoResult, completion,
                 screenshotResult>>

\* the parser.destroy() of parsePdfFromBuffer's finally rejects: the rejection
\* replaces the completion of the try block
FinallyDestroyFails(e) ==
  /\ pc = "finallyDestroy"
  /\ Leave(ParseRejects(via, e, calls))
  /\ UNCHANGED <<caller, config, extractor, options, input, via, threshold, buffer, textResult,
                 infoResult, pending, completion,
                 screenshotResult>>

\* it resolves: parsePdfFromBuffer completes
FinallyDestroyDone ==
  /\ pc = "finallyDestroy"
  /\ LET c == Get(pending) IN
     IF c.kind = "thrown" THEN Leave(ParseRejects(via, c.error, calls))
     ELSE Leave(ParseResolves(caller, extractor, options, c.value, calls))
  /\ UNCHANGED <<caller, config, extractor, options, input, via, threshold, buffer, textResult,
                 infoResult, pending, completion,
                 screenshotResult>>

\* how many times capability c was called
Count(tr, c) == Cardinality({i \in 1..Len(tr) : tr[i] = c})

\* a rejected create being sent a second time before the failure is reported
CreateFails_RetryOnce(e) ==
  /\ pc = "create"
  /\ IF Count(calls, "create") < 2
       THEN Leave(Awaits("create", "create", request, calls))
       ELSE Leave(ExtractFails(e, request, calls))
  /\ UNCHANGED <<caller, config, extractor, options, input, via, threshold, buffer, textResult,
                 infoResult, screenshotResult, pending, completion>>

\* client.chat.completions.create rejects
CreateFails(e) ==
  /\ pc = "create"
  /\ Leave(ExtractFails(e, request, calls))
  /\ UNCHANGED <<caller, config, extractor, options, input, via, threshold, buffer, textResult,
                 infoResult, pending, completion,
                 screenshotResult>>

\* client.chat.completions.create resolves
CreateDone(c) ==
  /\ pc = "create"
  /\ completion' = Some(c)
  /\ Leave(ExtractResult(c, request, calls))
  /\ UNCHANGED <<caller, config, extractor, options, input, via, threshold, buffer, textResult,
                 infoResult, pending,
                 screenshotResult>>

\* each disjunct names its position first, so that the inputs are enumerated
\* only where the call can take the step
Next ==
  \/ pc = "start" /\ \E cfg \in Configs : New(cfg)
  \/ pc = "idle" /\ \E opts \in RequestsFor(extractor) : Extract(opts)
  \/ pc = "start" /\ \E th \in Thresholds : ParsePdfFromPath("doc.pdf", th)
  \/ pc = "start" /\ \E buf \in Buffers, th \in Thresholds : ParsePdfFromBuffer(buf, th)
  \/ pc = "start" /\ \E buf \in Buffers : ValidatePdfBuffer(buf)
  \/ ValidatePdfPath("doc.pdf")
  \/ ReadFileFails
  \/ pc = "readFile" /\ \E bytes \in FileContents : ReadFileDone(bytes)
  \/ pc = "getText" /\ \E e \in Failures("getText failed") : GetTextFails(e)
  \/ pc = "getText" /\ \E text \in Texts : GetTextDone(text)
  \/ pc = "getInfo" /\ \E e \in Failures("getInfo failed") : GetInfoFails(e)
  \/ pc = "getInfo" /\ \E info \in InfoResults : GetInfoDone(info)
  \/ pc = "destroyText" /\ \E e \in Failures("destroy failed") : DestroyTextFails(e)
  \/ DestroyTextDone
  \/ pc = "getScreenshot" /\ \E e \in Failures("getScreenshot failed") : GetScreenshotFails(e)
  \/ pc = "getScreenshot" /\ \E pages \in Screenshots : GetScreenshotDone(pages)
  \/ pc = "destroyImage" /\ \E e \in Failures("destroy failed") : DestroyImageFails(e)
  \/ DestroyImageDone
  \/ pc = "finallyDestroy" /\ \E e \in Failures("destroy failed") : FinallyDestroyFails(e)
  \/ FinallyDestroyDone
  \/ pc = "create" /\ \E e \in Failures("429 rate limit") : CreateFails(e)
  \/ pc = "create" /\ \E c \in Completions : CreateDone(c)

Spec == Init /\ [][Next]_vars

---------------------------------------------------------------------------
(* The single-model extractor of src/extractor.ts *)

\* schemas as the objects they are: full format, simple format, a full-format
\* schema of a non-object type, an object schema without properties, a schema
\* with properties and no type, and a simple-format schema naming a property 'type'
SchemaObjects ==
  { [type |-> "object", properties |-> [invoiceNumber |-> [type |-> "string"]]],
    [invoiceNumber |-> [type |-> "string"]],
    [type |-> "string"],
    [type |-> "object"],
    [properties |-> [invoiceNumber |-> [type |-> "string"]]],
    [type |-> "string", amount |-> "number"] }

\* the schema of a request: what validateSchema looks at, and the object itself
SchemaOf(fields, compiles) ==
  [kind |-> "object", keys |-> Cardinality(DOMAIN fields), compiles |-> compiles,
   fields |-> fields]

FullSchema == [type |-> "object", properties |-> [invoiceNumber |-> [type |-> "string"]]]

SingleModelBaseRequest ==
  [schema |-> SchemaOf(FullSchema, TRUE), pdfPath |-> None,
   pdfBuffer |-> Some(PdfSignature \o <<"-">>), temperature |-> None, maxTokens |-> None]

SingleModelConfigs ==
  { [BaseConfig EXCEPT !.model = m, !.visionEnabled = v] :
      m \in {None, Some(<<>>), Some(Gpt35Turbo)}, v \in {None, Some(FALSE)} }
  \cup { [BaseConfig EXCEPT !.model = Some(Gpt4Turbo), !.textModel = Some(Claude3Opus),
                            !.visionModel = Some(Gemini15Pro)],
         [BaseConfig EXCEPT !.openaiApiKey = None] }

\* the names given to setModel
SetModelNames == {Gpt4oCapitals, Gpt4VisionPreview, Gpt4, Gpt35Turbo}

\* the requests tried: every schema and temperature on the default extractor,
\* the plain request on the others
SingleModelRequests ==
  IF extractor = Some(SingleModelExtractor(BaseConfig)) /\ lastSet = None
    THEN { [SingleModelBaseRequest EXCEPT !.schema = SchemaOf(f, c), !.temperature = t] :
             f \in SchemaObjects, c \in BOOLEAN, t \in {None, Some(0)} }
         \cup {[SingleModelBaseRequest EXCEPT !.pdfBuffer = None]}
    ELSE {SingleModelBaseRequest}

\* new PdfDataExtractor(cfg)
SingleModelNew(cfg) ==
  /\ pc = "start"
  /\ config' = Some(cfg)
  /\ IF Falsy(cfg.openaiApiKey)
       THEN /\ caller' = "new"
            /\ extractor' = extractor
            /\ Leave(Ends(Thrown(Err(<<MsgApiKey>>)), None, calls))
       ELSE /\ caller' = caller
            /\ extractor' = Some(SingleModelExtractor(cfg))
            /\ Leave(Exit("idle", None, None, calls))
  /\ UNCHANGED <<options, input, via, threshold, buffer, textResult, infoResult,
                 pending, completion, screenshotResult>>

\* a setModel that keeps a model given to the constructor
SetModel_KeepConfigured(model) ==
  /\ pc = "idle"
  /\ extractor' = IF IsSet(Get(extractor).config.model) THEN extractor
                  ELSE Some([Get(extractor) EXCEPT !.model = model])
  /\ lastSet' = Some([slot |-> "both", model |-> model])
  /\ UNCHANGED <<pc, caller, config, options, input, via, threshold, buffer, textResult,
                 infoResult, screenshotResult, pending, request, completion, outcome, calls,
                 inflight>>

\* extractor.setModel(model): this.model = model
SetModel(model) ==
  /\ pc = "idle"
  /\ extractor' = Some([Get(extractor) EXCEPT !.model = model])
  /\ lastSet' = Some([slot |-> "both", model |-> model])
  /\ UNCHANGED <<pc, caller, config, options, input, via, threshold, buffer, textResult,
                 infoResult, screenshotResult, pending, request, completion, outcome, calls,
                 inflight>>

\* extractor.extract(opts) on the single-model extractor, up to its first await
SingleModelExtract(opts) ==
  /\ pc = "idle"
  /\ caller' = "extractSingleModel"
  /\ options' = Some(opts)
  /\ LET this == Get(extractor)
         rejected == ExtractChecks(opts) IN
     IF IsSet(rejected)
       THEN /\ Leave(Ends(Thrown(Get(rejected)), None, calls))
            /\ UNCHANGED <<via, threshold, buffer>>
       ELSE /\ via' = "buffer"
            /\ threshold' = this.config.textThreshold
            /\ buffer' = opts.pdfBuffer
            /\ Leave(parsePdfFromBufferEntry("buffer", Get(opts.pdfBuffer), calls))
  /\ UNCHANGED <<config, extractor, input, textResult, infoResult, pending, completion,
                 screenshotResult>>

NextSingleModel ==
  \/ pc = "start" /\ \E cfg \in SingleModelConfigs : SingleModelNew(cfg)
  \/ pc = "idle" /\ \E model \in SetModelNames : SetModel(model)
  \/ pc = "idle" /\ \E opts \in SingleModelRequests : SingleModelExtract(opts)
  \/ pc = "getText" /\ \E e \in Failures("getText failed") : GetTextFails(e)
  \/ pc = "getText" /\ \E text \in Texts : GetTextDone(text)
  \/ pc = "getInfo" /\ \E e \in Failures("getInfo failed") : GetInfoFails(e)
  \/ pc = "getInfo" /\ \E info \in InfoResults : GetInfoDone(info)
  \/ pc = "destroyText" /\ \E e \in Failures("destroy failed") : DestroyTextFails(e)
  \/ DestroyTextDone
  \/ pc = "getScreenshot" /\ \E e \in Failures("getScreenshot failed") : GetScreenshotFails(e)
  \/ pc = "getScreenshot" /\ \E pages \in Screenshots : GetScreenshotDone(pages)
  \/ pc = "destroyImage" /\ \E e \in Failures("destroy failed") : DestroyImageFails(e)
  \/ DestroyImageDone
  \/ pc = "finallyDestroy" /\ \E e \in Failures("destroy failed") : FinallyDestroyFails(e)
  \/ FinallyDestroyDone
  \/ pc = "create" /\ \E e \in Failures("429 rate limit") : CreateFails(e)
  \/ pc = "create" /\ \E c \in Completions : CreateDone(c)

SpecSingleModel == Init /\ [][NextSingleModel]_vars

---------------------------------------------------------------------------
(* Properties *)

Has(tr, c) == \E i \in 1..Len(tr) : tr[i] = c

\* text extraction answered and the routing decision was taken
Classified == IsSet(textResult) /\ IsSet(infoResult)

\* the threshold the caller configured, 100 when unset
ConfiguredThreshold ==
  IF caller = "extract" THEN Coalesce(Get(config).textThreshold, 100)
  ELSE Coalesce(threshold, 100)

TrimmedLength == Len(Trim(Get(textResult)))

\* the call took the TEXT branch: parsePdfFromBuffer's try block returned Text content
TextRoute ==
  /\ pc # "destroyImage"
  /\ IsSet(pending)
  /\ Get(pending).kind = "returned"
  /\ Get(pending).value.content.type = "text"

Rasterized == Has(calls, "getScreenshot")

\* the release of the text parser that precedes the conversion failed
ReleaseBeforeConversionFailed ==
  /\ pc \in {"finallyDestroy", "done"}
  /\ IsSet(pending)
  /\ Get(pending).kind = "thrown"
  /\ Mentions(Get(pending).error, "destroy failed")

ParseReturned ==
  caller = "parse" /\ pc = "done" /\ Get(outcome).kind = "returned"

\* C1 as stated: the PDF is routed to TEXT (Text content, no rasterization) if and
\* only if the trimmed length of the extracted text is at least the configured
\* threshold, 100 when unset
C1_Original ==
  Classified =>
    /\ TextRoute <=> TrimmedLength >= ConfiguredThreshold
    /\ TextRoute => ~Rasterized

\* C1 amended: the PDF is routed to TEXT (parse returns Text content and no
\* rasterization is invoked) if and only if the extracted text is not empty and its
\* trimmed length is at least the configured threshold (100 when unset); otherwise
\* it takes the IMAGE branch, where rasterization is invoked once the text parser
\* is released; rasterization is never invoked before or without that decision
C1_Routing ==
  LET sufficient ==
        Get(textResult) # <<>> /\ TrimmedLength >= ConfiguredThreshold IN
  /\ Rasterized => Classified
  /\ Classified =>
       /\ TextRoute <=> sufficient
       /\ TextRoute => ~Rasterized
       /\ ~sufficient =>
            pc = "destroyText" \/ Rasterized \/ ReleaseBeforeConversionFailed
       /\ ParseReturned =>
            (Get(outcome).value.content.type = "text" <=> sufficient)

\* a padded text of trimmed length 100 went to the model as text under the default
\* threshold
C1_Witness ==
  /\ caller = "extract"
  /\ pc = "create"
  /\ ~IsSet(Get(config).textThreshold)
  /\ Get(textResult) = PaddedText(1, DefaultTextThreshold)
  /\ TextRoute
  /\ ~Rasterized

\* a release step (parser.destroy()) failed during the call
ReleaseFailed ==
  \/ IsSet(pending) /\ Get(pending).kind = "thrown"
       /\ Mentions(Get(pending).error, "destroy failed")
  \/ IsSet(outcome) /\ Get(outcome).kind = "thrown"
       /\ Mentions(Get(outcome).error, "destroy failed")

ExtractEnded == caller = "extract" /\ pc = "done"

\* C2 as stated: when the extracted text is below the threshold and visionEnabled
\* is false, extract fails with the vision-disabled error whatever rasterization
\* does, and makes no model call (checked on the calls in which every release step
\* succeeded)
C2_VisionDisabled ==
  ( /\ ExtractEnded
    /\ Classified
    /\ TrimmedLength < ConfiguredThreshold
    /\ Get(config).visionEnabled = Some(FALSE)
    /\ ~ReleaseFailed )
  => /\ Get(outcome).kind = "thrown"
     /\ Mentions(Get(outcome).error, MsgVisionDisabled)
     /\ ~Has(calls, "create")

\* extract is past parsePdf with Images content
ImagesParsed ==
  /\ caller = "extract"
  /\ pc \in {"create", "done"}
  /\ IsSet(pending)
  /\ Get(pending).kind = "returned"
  /\ Get(pending).value.content.type = "images"

ParsedPages == Get(pending).value.content.content

UserMessages(messages) == {i \in 1..Len(messages) : messages[i].role = "user"}

\* C3: for Images content p1..pn with vision enabled, extract makes a model call
\* whose single user message is the fixed instruction followed by exactly n image
\* attachments, the i-th being 'data:image/png;base64,' followed by the payload of
\* pi, in page order
C3_VisionRequest ==
  ( /\ ImagesParsed
    /\ Get(config).visionEnabled # Some(FALSE)
    /\ ~ReleaseFailed )
  => /\ Has(calls, "create")
     /\ IsSet(request)
     /\ LET messages == Get(request).messages
            user == messages[Len(messages)] IN
        /\ UserMessages(messages) = {Len(messages)}
        /\ Len(user.content) = Len(ParsedPages) + 1
        /\ user.content[1] =
             [type |-> "text",
              body |-> <<"Extract the following structured information from these document pages:">>]
        /\ \A i \in 1..Len(ParsedPages) :
             user.content[i + 1] =
               [type |-> "image_url",
                body |-> <<"data:image/png;base64", ",">> \o ParsedPages[i].base64]

\* a vision request for two pages with different payloads is in flight
C3_Witness ==
  /\ ImagesParsed
  /\ pc = "create"
  /\ Len(ParsedPages) = 2
  /\ ParsedPages[1].base64 = PagePayload(1)
  /\ ParsedPages[2].base64 = PagePayload(2)
  /\ Len(Get(request).messages[Len(Get(request).messages)].content) = 3

\* the mode of the model request: TEXT for Text content, VISION for Images
RequestMode == IF TextRoute THEN "TEXT" ELSE "VISION"

\* C4 as stated: the effective text model is textModel if set, else model if set,
\* else 'gpt-4o-mini', and likewise for the vision model, a set field being any
\* field the configuration gives a value
C4_Original ==
  IsSet(extractor) =>
    LET cfg == Get(config)
        default == Coalesce(cfg.model, "gpt-4o-mini") IN
    /\ Get(extractor).textModel = Coalesce(cfg.textModel, default)
    /\ Get(extractor).visionModel = Coalesce(cfg.visionModel, default)

\* a field that is given a non-empty value
Named(field) == field # <<>> /\ field # <<"">>

\* the resolution C4 describes, an empty string counting as unset
Effective(specific, model) ==
  IF Named(specific) THEN specific[1]
  ELSE IF Named(model) THEN model[1] ELSE "gpt-4o-mini"

\* C4 amended: with an empty string counting as unset, the effective text model is
\* textModel if set, else model if set, else 'gpt-4o-mini'; the effective vision
\* model is visionModel if set, else model if set, else 'gpt-4o-mini'; a TEXT-mode
\* call is sent with the effective text model and a VISION-mode call with the
\* effective vision model (so neither depends on the other modality's field)
C4_Models ==
  IsSet(extractor) =>
    LET cfg == Get(config) IN
    /\ Get(extractor).textModel = Effective(cfg.textModel, cfg.model)
    /\ Get(extractor).visionModel = Effective(cfg.visionModel, cfg.model)
    /\ IsSet(request) =>
         Get(request).model =
           IF RequestMode = "TEXT" THEN Effective(cfg.textModel, cfg.model)
           ELSE Effective(cfg.visionModel, cfg.model)

\* a VISION-mode request went out with the general model as the fallback while
\* textModel was configured
C4_Witness ==
  /\ pc = "create"
  /\ RequestMode = "VISION"
  /\ Get(config).textModel = Some("gpt-4-turbo")
  /\ Get(config).model = Some("gpt-4")
  /\ ~IsSet(Get(config).visionModel)
  /\ Get(request).model = "gpt-4"

\* extract was called with this request
Requested == caller = "extract" /\ IsSet(options)

NoCapabilityUsed == calls = <<>> /\ ~IsSet(request)

\* C5: a request with neither pdfPath nor pdfBuffer fails with 'Either pdfPath or
\* pdfBuffer must be provided', and no file read, text extraction, rasterization
\* or model call is performed
C5_MissingSource ==
  ( /\ Requested
    /\ Get(options).pdfPath \in {<<>>, <<"">>}
    /\ Get(options).pdfBuffer = <<>> )
  => /\ pc = "done"
     /\ Get(outcome) =
          [kind |-> "thrown",
           error |-> [isError |-> TRUE,
                      msg |-> <<"Either pdfPath or pdfBuffer must be provided">>]]
     /\ NoCapabilityUsed

\* a request with neither source and a schema the gate rejects ended with the
\* missing-source error
C5_Witness ==
  /\ Requested
  /\ Get(options).pdfPath = None
  /\ Get(options).pdfBuffer = None
  /\ Get(options).schema.keys = 0
  /\ pc = "done"
  /\ Mentions(Get(outcome).error, MsgMissingSource)

FailedMissingSource ==
  /\ pc = "done"
  /\ Get(outcome).kind = "thrown"
  /\ Mentions(Get(outcome).error, MsgMissingSource)

PathGiven == Named(Get(options).pdfPath)

BufferGiven == Get(options).pdfBuffer # <<>>

\* C6 as stated: a request passes the source check only if exactly one of pdfPath
\* and pdfBuffer is supplied; supplying both fails with the missing-source error
C6_Original ==
  Requested => (FailedMissingSource <=> ~(PathGiven # BufferGiven))

\* C6 amended: a request passes the source check if and only if at least one of
\* pdfPath (non-empty) and pdfBuffer is supplied; a request supplying both is not
\* rejected and the PDF is read from pdfPath, the buffer being ignored; a request
\* supplying neither fails with the missing-source error
C6_SourceCheck ==
  Requested =>
    /\ FailedMissingSource <=> ~(PathGiven \/ BufferGiven)
    /\ (PathGiven /\ BufferGiven /\ IsSet(validateSchema(Get(options).schema)) = FALSE)
         => /\ via = "path"
            /\ Head(calls) = "readFile"
            /\ IsSet(buffer) => Get(buffer) \in FileContents

\* a request supplying both sources is reading the file
C6_Witness ==
  /\ Requested
  /\ PathGiven
  /\ BufferGiven
  /\ pc = "readFile"

\* what the schema gate says about a schema it rejects, <<>> for one it accepts
GateMessage(schema) ==
  IF schema.kind # "object" THEN <<"Schema must be a non-null object">>
  ELSE IF schema.keys = 0 THEN <<"Schema cannot be empty">>
  ELSE IF ~schema.compiles THEN <<"Schema validation failed: ", "schema is invalid">>
  ELSE <<>>

\* the calls of the parsing stage
ParseCalls == {"readFile", "getText", "getInfo", "destroy", "getScreenshot"}

\* C7: extract checks source presence, then the schema gate, then parses the PDF,
\* then calls the model, stopping at the first failure: a request with no source
\* fails with the missing-source error even when its schema is invalid; a request
\* with a source and a schema the gate rejects fails with 'Invalid JSON schema: '
\* followed by the gate's message, with no file read, text extraction,
\* rasterization or model call; no model call is made before parsing has returned
\* content, and the model call is the last call made
C7_CheckOrder ==
  Requested =>
    LET opts == Get(options)
        gate == GateMessage(opts.schema) IN
    /\ ~(PathGiven \/ BufferGiven) => FailedMissingSource /\ NoCapabilityUsed
    /\ ((PathGiven \/ BufferGiven) /\ gate # <<>>)
         => /\ pc = "done"
            /\ Get(outcome) =
                 [kind |-> "thrown",
                  error |-> [isError |-> TRUE, msg |-> <<"Invalid JSON schema: ">> \o gate]]
            /\ NoCapabilityUsed
    /\ calls # <<>> => (PathGiven \/ BufferGiven) /\ gate = <<>>
    /\ \A i \in 1..Len(calls) :
         IF calls[i] = "create"
           THEN i = Len(calls) /\ i > 1 /\ IsSet(request) /\ Classified
           ELSE calls[i] \in ParseCalls
    /\ IsSet(request) => Has(calls, "create")

\* a request whose buffer is not a PDF and whose schema is {} ended with the
\* gate's message
C7_Witness ==
  /\ Requested
  /\ Get(options).pdfPath = None
  /\ Get(options).pdfBuffer = Some(<<"%", "P", "D">>)
  /\ Get(options).schema = [kind |-> "object", keys |-> 0, compiles |-> TRUE]
  /\ pc = "done"
  /\ Get(outcome).error.msg = <<PfxInvalidSchema, MsgSchemaEmpty>>

\* the buffer is shorter than 4 bytes or its first 4 bytes are not '%PDF'
BadSignature(bytes) ==
  \/ Len(bytes) < 4
  \/ <<bytes[1], bytes[2], bytes[3], bytes[4]>> # <<"%", "P", "D", "F">>

\* C8: when the bytes to parse are shorter than 4 bytes or do not begin with
\* '%PDF', parsing has failed with 'Invalid PDF: file does not contain PDF
\* signature' (the whole message for a buffer source) and neither text extraction
\* nor rasterization has been started
C8_SignatureGate ==
  ( caller \in {"parse", "extract"} /\ IsSet(buffer) /\ BadSignature(Get(buffer)) )
  => /\ pc = "done"
     /\ Get(outcome).kind = "thrown"
     /\ Mentions(Get(outcome).error, "Invalid PDF: file does not contain PDF signature")
     /\ via = "buffer" =>
          Get(outcome).error =
            [isError |-> TRUE, msg |-> <<"Invalid PDF: file does not contain PDF signature">>]
     /\ ~Has(calls, "getText")
     /\ ~Has(calls, "getInfo")
     /\ ~Has(calls, "getScreenshot")

\* parsePdfFromBuffer rejected a 3-byte buffer without calling anything
C8_Witness ==
  /\ caller = "parse"
  /\ via = "buffer"
  /\ buffer = Some(<<"%", "P", "D">>)
  /\ pc = "done"
  /\ Get(outcome) = Thrown(Err(<<MsgInvalidPdf>>))
  /\ calls = <<>>

ParseFailed ==
  /\ caller = "parse"
  /\ pc = "done"
  /\ Get(outcome).kind = "thrown"
  /\ Get(outcome).error.isError

\* the failure kind the rejection is reported as: the head of its message
ReportedAs(prefix) == Head(Get(outcome).error.msg) = prefix

\* C10 as stated: a failed parse reports a read failure exactly when the source is
\* a path and the file read failed, an invalid PDF exactly when the bytes were
\* obtained but do not begin with '%PDF', and a parse failure exactly when the
\* signature is valid and the parser failed on the bytes
C10_FailureKinds ==
  ParseFailed =>
    /\ ReportedAs("Failed to read PDF from path: ") <=> (via = "path" /\ ~IsSet(buffer))
    /\ ReportedAs("Invalid PDF: file does not contain PDF signature")
         <=> (IsSet(buffer) /\ BadSignature(Get(buffer)))
    /\ ReportedAs("Failed to parse PDF: ")
         <=> (IsSet(buffer) /\ ~BadSignature(Get(buffer)))

\* the extracted text has no character other than whitespace
Blank(text) == \A i \in 1..Len(text) : text[i] = " "

\* C11 as stated: an empty or all-whitespace extracted text is routed to IMAGE for
\* every threshold, threshold 0 included, and with threshold 0 every text with at
\* least one non-whitespace character is routed to TEXT
C11_BlankText ==
  Classified =>
    /\ Blank(Get(textResult)) => ~TextRoute
    /\ (ConfiguredThreshold = 0 /\ ~Blank(Get(textResult))) => TextRoute

\* parsePdf ended, by either entry point, without a release step failing
ParseEnded == caller = "parse" /\ pc = "done" /\ ~ReleaseFailed

\* the pages of the rasterizer's answer that carry image data
Rendered(pages) == SelectSeq(pages, LAMBDA p : p.dataUrl # <<>>)

\* C12 as stated, for the empty-result pattern: when the text is insufficient and
\* rasterization answers with zero page images, parse succeeds with Images content
\* holding an empty page sequence
C12_ZeroPages ==
  ( /\ ParseEnded
    /\ IsSet(screenshotResult)
    /\ Get(screenshotResult) = <<>> )
  => /\ Get(outcome).kind = "returned"
     /\ Get(outcome).value.content = [type |-> "images", content |-> <<>>]

\* C13 as stated: when rasterization fails on some pages and succeeds on at least
\* one, parse raises no error and returns Images content holding exactly the pages
\* that were rasterized, in page order with their original page numbers
C13_PartialPages ==
  ( /\ ParseEnded
    /\ IsSet(screenshotResult)
    /\ Rendered(Get(screenshotResult)) # <<>> )
  => LET ok == Rendered(Get(screenshotResult)) IN
     /\ Get(outcome).kind = "returned"
     /\ Get(outcome).value.content.type = "images"
     /\ LET images == Get(outcome).value.content.content IN
        /\ Len(images) = Len(ok)
        /\ \A i \in 1..Len(ok) :
             /\ images[i].page = ok[i].pageNumber
             /\ images[i].base64 # <<>>

\* the external capabilities: file read, text extraction, rasterization, model call
Capabilities == {"readFile", "getText", "getInfo", "getScreenshot", "create"}

\* what a failing capability rejects with
Cause(c) ==
  CASE c = "readFile" -> "ENOENT: no such file or directory"
    [] c = "getText" -> "getText failed"
    [] c = "getInfo" -> "getInfo failed"
    [] c = "getScreenshot" -> "getScreenshot failed"
    [] c = "create" -> "429 rate limit"

\* capability c failed during the call
FailedIn(c) ==
  \/ IsSet(pending) /\ Get(pending).kind = "thrown" /\ Mentions(Get(pending).error, Cause(c))
  \/ IsSet(outcome) /\ Get(outcome).kind = "thrown" /\ Mentions(Get(outcome).error, Cause(c))

\* C14: nothing is retried: in an extract invocation every capability is called at
\* most once; an invocation that returned a result made exactly one model call;
\* once a capability has failed no capability is called again (only the parsers
\* are released) and the invocation ends with an error
C14_NoRetry ==
  caller = "extract" =>
    /\ \A c \in Capabilities : Count(calls, c) <= 1
    /\ (pc = "done" /\ Get(outcome).kind = "returned") => Count(calls, "create") = 1
    /\ \A c \in Capabilities :
         FailedIn(c) =>
           /\ Has(calls, c)
           /\ \A i \in 1..Len(calls) :
                \/ calls[i] = "destroy"
                \/ \E j \in i..Len(calls) : calls[j] = c
           /\ pc = "done" => Get(outcome).kind = "thrown"

\* an extract whose model call was rejected ended after that single call
C14_Witness ==
  /\ caller = "extract"
  /\ pc = "done"
  /\ FailedIn("create")
  /\ calls = <<"getText", "getInfo", "destroy", "getScreenshot", "destroy", "destroy", "create">>

\* the model call was made and extract has ended
CallEnded == caller = "extract" /\ pc = "done" /\ Has(calls, "create")

\* the model answered
Answered == CallEnded /\ IsSet(completion)

\* C15: when the model call succeeds but its content is absent, null or the empty
\* string, extract returns no result and fails with 'No response from OpenAI API'
\* (carried behind the prefix 'Failed to extract data: '), in TEXT mode and in
\* VISION mode alike
C15_EmptyResponse ==
  ( Answered /\ Get(completion).content \in {<<>>, <<"">>} )
  => Get(outcome) =
       [kind |-> "thrown",
        error |-> [isError |-> TRUE,
                   msg |-> <<"Failed to extract data: ", "No response from OpenAI API">>]]

\* a VISION-mode call answered with the empty string ended with the error
C15_Witness ==
  /\ Answered
  /\ RequestMode = "VISION"
  /\ Get(completion).content = Some("")
  /\ Mentions(Get(outcome).error, MsgNoResponse)

\* the message of what the model call or the parsing of its response failed with
CallCause ==
  IF ~IsSet(completion) THEN "429 rate limit"
  ELSE IF Get(completion).content \in {<<>>, <<"">>} THEN "No response from OpenAI API"
  ELSE "Unexpected token in JSON"

\* C16 as stated: every failure raised during the model call or while parsing its
\* response reaches the caller as 'Failed to extract data: ' followed by the
\* cause's message, whatever kind of value the cause is, and content that is not
\* valid JSON is never returned as data
C16_Original ==
  CallEnded =>
    /\ Get(outcome).kind = "thrown" =>
         /\ Head(Get(outcome).error.msg) = "Failed to extract data: "
         /\ Mentions(Get(outcome).error, CallCause)
    /\ (Answered /\ Get(completion).content = <<"not json">>) => Get(outcome).kind = "thrown"

\* C16 amended: a failure raised during the model call or while parsing its
\* response reaches the caller as an Error 'Failed to extract data: ' followed by
\* the cause's message when the cause is an Error, and is rethrown unchanged,
\* without the prefix, when the cause is any other kind of value; content that is
\* not valid JSON is never returned as data: it fails with the parse error's
\* message behind the prefix
C16_Wrapped ==
  CallEnded =>
    /\ Get(outcome).kind = "thrown" =>
         Get(outcome).error \in
           { [isError |-> TRUE, msg |-> <<"Failed to extract data: ", CallCause>>],
             [isError |-> FALSE, msg |-> <<CallCause>>] }
    /\ (Get(outcome).kind = "thrown" /\ ~Get(outcome).error.isError) => ~IsSet(completion)
    /\ (Answered /\ Get(completion).content = <<"not json">>)
         => Get(outcome) =
              [kind |-> "thrown",
               error |-> [isError |-> TRUE,
                          msg |-> <<"Failed to extract data: ", "Unexpected token in JSON">>]]
    /\ Get(outcome).kind = "returned" => Get(completion).content = Some(JsonText)

\* content that is not JSON ended a TEXT-mode call with the wrapped parse error
C16_Witness ==
  /\ Answered
  /\ RequestMode = "TEXT"
  /\ Get(completion).content = Some("not json")
  /\ Get(outcome).error.msg = <<PfxExtract, "Unexpected token in JSON">>

\* C17: when the model's content parses as JSON, extract returns a result whose
\* data is the parsed content, whose tokensUsed is the reported total token count
\* (absent when no usage is reported) and whose model is the identifier the
\* response reports, not the model the request named
C17_Result ==
  ( Answered /\ Get(completion).content = Some(JsonText) )
  => /\ Get(outcome).kind = "returned"
     /\ Get(outcome).value.data = [invoiceNumber |-> "INV-1"]
     /\ Get(outcome).value.tokensUsed =
          IF Get(completion).usage = <<>> THEN <<>>
          ELSE <<Get(completion).usage[1].total_tokens>>
     /\ Get(outcome).value.model = Get(completion).model

\* a result reporting 42 tokens and a model identifier other than the requested one
C17_Witness ==
  /\ Answered
  /\ Get(outcome).kind = "returned"
  /\ Get(outcome).value.tokensUsed = Some(42)
  /\ Get(outcome).value.model = "gpt-4o-mini-2024-07-18"
  /\ Get(request).model = "gpt-4o-mini"

\* C18 as stated: the temperature sent with the model call is the request's
\* temperature when one is provided (0 included), otherwise the configured
\* defaultTemperature, otherwise 0, in TEXT mode and in VISION mode alike, with no
\* range check
C18_Temperature ==
  ( caller = "extract" /\ IsSet(request) )
  => Get(request).temperature =
       IF Get(options).temperature # <<>> THEN Get(options).temperature[1]
       ELSE IF Get(config).defaultTemperature # <<>> THEN Get(config).defaultTemperature[1]
       ELSE 0

SystemMessages(messages) == {i \in 1..Len(messages) : messages[i].role = "system"}

\* C19: in TEXT mode and in VISION mode alike the request has a system message if
\* and only if the configured systemPrompt is not the empty string; it precedes the
\* user message, which is the only other message, and its content is the
\* configured systemPrompt verbatim, or the fixed default when systemPrompt was
\* left unset
C19_SystemMessage ==
  ( caller = "extract" /\ IsSet(request) )
  => LET messages == Get(request).messages
         prompt == Get(config).systemPrompt IN
     /\ SystemMessages(messages) # {} <=> prompt # <<"">>
     /\ messages[Len(messages)].role = "user"
     /\ IF prompt = <<"">> THEN Len(messages) = 1
        ELSE /\ Len(messages) = 2
             /\ messages[1] =
                  [role |-> "system",
                   content |->
                     <<[type |-> "string",
                        body |-> IF prompt = <<>>
                                   THEN <<"You are a helpful assistant that extracts structured data from text. Extract the requested information accurately from the provided text.">>
                                   ELSE prompt]>>]

\* a VISION-mode request of an extractor configured with the empty prompt carries
\* the user message only
C19_Witness ==
  /\ caller = "extract"
  /\ pc = "create"
  /\ RequestMode = "VISION"
  /\ Get(config).systemPrompt = Some("")
  /\ Len(Get(request).messages) = 1

\* the last call of tr named c is followed by a release
ReleasedAfter(tr, c) ==
  \A i \in 1..Len(tr) : tr[i] = c => \E j \in (i + 1)..Len(tr) : tr[j] = "destroy"

\* C20 as stated: a parse invocation releases the text parser and the image parser
\* on every exit path, and a failure of the release step is never propagated: it
\* replaces neither the result nor the error of the invocation
C20_Release ==
  ( caller = "parse" /\ pc = "done" )
  => /\ ReleasedAfter(calls, "getText")
     /\ ReleasedAfter(calls, "getScreenshot")
     /\ ~( /\ Get(outcome).kind = "thrown"
           /\ Mentions(Get(outcome).error, "destroy failed") )

\* no leading or trailing whitespace
Trimmed(text) == text = <<>> \/ (text[1] # " " /\ text[Len(text)] # " ")

\* C24 as stated: whenever parse returns the Text variant its body is trimmed and
\* non-empty, for every extracted text and every threshold; exactly one of the
\* Text and Images variants is populated
C24_Original ==
  ParseReturned =>
    LET content == Get(outcome).value.content IN
    /\ content.type \in {"text", "images"}
    /\ content.type = "text" => Trimmed(content.content) /\ content.content # <<>>

\* C24 amended: whenever parse returns the Text variant its body is the extracted
\* text exactly as text extraction returned it (it is not trimmed) and is
\* non-empty, for every extracted text and every threshold; exactly one of the
\* Text and Images variants is populated: a Text result carries no page images
\* and an Images result carries one image per page the rasterizer returned
C24_TextBody ==
  ParseReturned =>
    LET content == Get(outcome).value.content IN
    /\ content.type \in {"text", "images"}
    /\ content.type = "text" =>
         /\ content.content = Get(textResult)
         /\ content.content # <<>>
         /\ ~IsSet(screenshotResult)
    /\ content.type = "images" =>
         /\ IsSet(screenshotResult)
         /\ Len(content.content) = Len(Get(screenshotResult))
         /\ \A i \in 1..Len(content.content) :
              content.content[i].page = Get(screenshotResult)[i].pageNumber

\* parse returned a Text body that has a leading and a trailing space
C24_Witness ==
  /\ ParseReturned
  /\ Get(outcome).value.content.type = "text"
  /\ Get(outcome).value.content.content = PaddedText(1, DefaultTextThreshold)

\* C25: construction fails with 'OpenAI API key is required' if and only if the
\* configured key is empty or absent; an extractor exists only for a non-empty
\* key, and construction with a non-empty key succeeds whatever the optional
\* fields are
C25_ApiKey ==
  IsSet(config) =>
    LET key == Get(config).openaiApiKey
        missing == key = <<>> \/ key = <<"">>
        failed == /\ caller = "new"
                  /\ pc = "done"
                  /\ Get(outcome) =
                       [kind |-> "thrown",
                        error |-> [isError |-> TRUE, msg |-> <<"OpenAI API key is required">>]] IN
    /\ failed <=> missing
    /\ IsSet(extractor) <=> ~missing
    /\ caller = "extract" => ~missing

\* construction with the empty string as key failed
C25_Witness ==
  /\ IsSet(config)
  /\ Get(config).openaiApiKey = Some("")
  /\ pc = "done"
  /\ Mentions(Get(outcome).error, MsgApiKey)
  /\ ~IsSet(extractor)

\* parsing returned content to extract: its try block completed with a value and
\* the release in its finally did not replace it
ParsedOk ==
  /\ IsSet(pending)
  /\ Get(pending).kind = "returned"
  /\ ~Mentions(Get(outcome).error, "destroy failed")

\* what the PDF stage fails with: the causes of its capabilities and its own check
PdfStageCauses ==
  {"ENOENT: no such file or directory", "getText failed", "getInfo failed",
   "getScreenshot failed", "destroy failed", MsgNoImages,
   "Invalid PDF: file does not contain PDF signature"}

\* C27: a failure of the PDF stage inside extract (file read, signature, text
\* extraction, rasterization, release) reaches the caller as the PDF pipeline's
\* own error, never behind 'Failed to extract data: '; that prefix is applied only
\* to failures that arise after parse has returned, and then exactly once, at the
\* head of the message
C27_PdfStage ==
  ( ExtractEnded /\ Get(outcome).kind = "thrown" ) =>
    LET e == Get(outcome).error
        wraps == Count(e.msg, "Failed to extract data: ") IN
    /\ wraps <= 1
    /\ wraps = 1 => ( ParsedOk /\ e.isError /\ Head(e.msg) = "Failed to extract data: " )
    /\ (\E cause \in PdfStageCauses : Mentions(e, cause)) =>
         /\ ~ParsedOk
         /\ wraps = 0
         /\ ~Has(calls, "create")
         /\ e.isError =>
              Head(e.msg) \in
                IF via = "path" THEN {"Failed to read PDF from path: "}
                ELSE {"Failed to parse PDF: ", "Invalid PDF: file does not contain PDF signature",
                      "destroy failed"}
         /\ ~e.isError => Len(e.msg) = 1

\* an extract call whose rasterization failed ended with the pipeline's error
C27_Witness ==
  /\ ExtractEnded
  /\ via = "buffer"
  /\ Get(outcome).kind = "thrown"
  /\ Get(outcome).error.msg = <<PfxParsePdf, PfxConvert, "getScreenshot failed">>

\* the image attachments of the request sent to the model
Attachments ==
  LET content == Get(request).messages[Len(Get(request).messages)].content IN
  SelectSeq(content, LAMBDA part : part.type = "image_url")

\* C28 as stated: every page image in the Images content parsing produced has a
\* non-empty base64 payload, the part after the first comma of the data URL the
\* rasterizer gave for that page, and no page without image data is sent to the
\* model as an attachment with an empty payload
C28_Payload ==
  /\ ( /\ caller \in {"parse", "extract"}
       /\ pc \in {"finallyDestroy", "create", "done"}
       /\ IsSet(pending)
       /\ Get(pending).kind = "returned"
       /\ Get(pending).value.content.type = "images" )
     => LET images == Get(pending).value.content.content IN
        \A i \in 1..Len(images) :
          /\ images[i].base64 # <<>>
          /\ Some(images[i].base64) = AfterComma(Get(Get(screenshotResult)[i].dataUrl))
  /\ ( caller = "extract" /\ IsSet(request) )
     => \A i \in 1..Len(Attachments) : Attachments[i].body # DataUrlPrefix

\* C30 as stated: in every parsePdfFromBuffer invocation that passes the signature
\* check the text parser is destroyed exactly once on every exit path and is not
\* used after it has been destroyed, and the image parser created for the
\* rasterization is destroyed exactly once
C30_DestroyOnce ==
  ( caller = "parse" /\ pc = "done" /\ Has(calls, "getText") )
  => LET imageParsers == Count(calls, "getScreenshot")
         destroyed == Count(calls, "destroy") IN
     /\ imageParsers <= 1
     /\ destroyed - imageParsers = 1
     /\ \A i \in 1..Len(calls) :
          calls[i] \in {"getText", "getInfo"} => \A j \in 1..(i - 1) : calls[j] # "destroy"

\* getModel(): return this.model
getModel(this) == this.model

\* C22: after any sequence of setModel calls the accessor reports the most
\* recently set value as the model of the extractor, which is its model for TEXT
\* mode and for VISION mode, whatever model, textModel or visionModel the
\* constructor was given, and every later extract call sends that value as the
\* model in both modes
C22_SetModel ==
  ( IsSet(lastSet) /\ Get(lastSet).slot = "both" )
  => /\ getModel(Get(extractor)) = Get(lastSet).model
     /\ IsSet(request) => Get(request).model = Get(lastSet).model

\* a VISION-mode call sent the name given to setModel, not the configured ones
C22_Witness ==
  /\ IsSet(lastSet)
  /\ IsSet(request)
  /\ Get(config).model = Some(Gpt4Turbo)
  /\ Get(config).visionModel = Some(Gemini15Pro)
  /\ Get(lastSet).model = Gpt4VisionPreview
  /\ pc = "done"
  /\ Has(calls, "getScreenshot")
  /\ Get(request).model = Gpt4VisionPreview

\* the vision-capable model identifiers the usage guide lists
DocumentedVisionModels ==
  {Gpt4o, Gpt4oMini, Gpt4Turbo, Claude35Sonnet, Claude3Opus, Gemini15Pro}

ContainsNone(model, identifiers) ==
  \A id \in identifiers : ~Includes(ToLowerCase(model), id)

\* the single-model extract received Images content from the parsing stage
SingleModelImages ==
  /\ caller = "extractSingleModel"
  /\ pc \in {"create", "done"}
  /\ IsSet(pending)
  /\ Get(pending).kind = "returned"
  /\ Get(pending).value.content.type = "images"
  /\ ~ReleaseFailed

\* the outcome of a failed vision check
VisionCheckFailed(message) ==
  /\ pc = "done"
  /\ Get(outcome) = [kind |-> "thrown",
                     error |-> [isError |-> TRUE, msg |-> <<"Failed to extract data: ">> \o message]]
  /\ ~Has(calls, "create")

C29_SameClassification ==
  ( caller = "extractSingleModel" /\ IsSet(request) ) =>
    LET schema == Get(options).schema.fields
        validated == SchemaToValidate(schema)
        sent == Get(request).schema IN
    IF validated = schema THEN sent = schema
    ELSE sent = [type |-> "object", properties |-> schema, required |-> DOMAIN schema,
                 additionalProperties |-> FALSE]

---------------------------------------------------------------------------
(* The mutators of the two model slots *)

SlotConfigs ==
  { BaseConfig,
    [BaseConfig EXCEPT !.model = Some("gpt-4-turbo")],
    [BaseConfig EXCEPT !.textModel = Some("gpt-4o")],
    [BaseConfig EXCEPT !.model = Some("gpt-4-turbo"), !.visionModel = Some("gpt-4o")],
    [BaseConfig EXCEPT !.openaiApiKey = None] }

\* the names given to the mutators
SlotModelNames == {"gpt-4o-mini", "gpt-4o", "gpt-4.1", "gpt-4-turbo"}

\* a setTextModel that sets both slots
SetTextModel_Both(model) ==
  /\ pc = "idle"
  /\ extractor' = Some([Get(extractor) EXCEPT !.textModel = model, !.visionModel = model])
  /\ lastSet' = Some([slot |-> "text", model |-> model])
  /\ UNCHANGED <<pc, caller, config, options, input, via, threshold, buffer, textResult,
                 infoResult, screenshotResult, pending, request, completion, outcome, calls,
                 inflight>>

\* extractor.setTextModel(model)
SetTextModel(model) ==
  /\ pc = "idle"
  /\ extractor' = Some([Get(extractor) EXCEPT !.textModel = model])
  /\ lastSet' = Some([slot |-> "text", model |-> model])
  /\ UNCHANGED <<pc, caller, config, options, input, via, threshold, buffer, textResult,
                 infoResult, screenshotResult, pending, request, completion, outcome, calls,
                 inflight>>

\* extractor.setVisionModel(model)
SetVisionModel(model) ==
  /\ pc = "idle"
  /\ extractor' = Some([Get(extractor) EXCEPT !.visionModel = model])
  /\ lastSet' = Some([slot |-> "vision", model |-> model])
  /\ UNCHANGED <<pc, caller, config, options, input, via, threshold, buffer, textResult,
                 infoResult, screenshotResult, pending, request, completion, outcome, calls,
                 inflight>>

NextModelSlots ==
  \/ pc = "start" /\ \E cfg \in SlotConfigs : New(cfg)
  \/ pc = "idle" /\ \E model \in SlotModelNames : SetTextModel(model)
  \/ pc = "idle" /\ \E model \in SlotModelNames : SetVisionModel(model)

SpecModelSlots == Init /\ [][NextModelSlots]_vars

\* getTextModel(): return this.textModel
getTextModel(this) == this.textModel

\* getVisionModel(): return this.visionModel
getVisionModel(this) == this.visionModel

\* a call of a mutator: the effective model of the slot it names is its argument
\* and the effective model of the other slot is what it was
SlotStep ==
  ( lastSet' # lastSet ) =>
    LET set == Get(lastSet')
        before == Get(extractor)
        after == Get(extractor') IN
    /\ set.slot = "text" =>
         /\ getTextModel(after) = set.model
         /\ getVisionModel(after) = getVisionModel(before)
    /\ set.slot = "vision" =>
         /\ getVisionModel(after) = set.model
         /\ getTextModel(after) = getTextModel(before)

---------------------------------------------------------------------------
(* Several extract calls in flight on one extractor *)

\* what an awaited capability answers with
Resolved(v) == [kind |-> "resolved", value |-> v, error |-> Err(<<>>)]

Rejected(e) == [kind |-> "rejected", value |-> <<>>, error |-> e]

\* the call c left where the step x says
Moved(c, x) ==
  [c EXCEPT !.pc = x.pc, !.outcome = x.outcome, !.request = x.request, !.calls = x.calls]

\* the try block of parsePdfFromBuffer completed with result: its finally starts
CallParseFinally(c, result) ==
  Moved([c EXCEPT !.pending = Some(result)],
        Awaits("finallyDestroy", "destroy", None, c.calls))

\* the try block of convertPdfToImages completed with result
CallConvertFinally(c, result) ==
  Moved([c EXCEPT !.pending = Some(result)],
        Awaits("destroyImage", "destroy", None, c.calls))

\* extract(opts) up to its first await, as a function of the extractor
CallStart(this, opts) ==
  LET c == [NotStarted EXCEPT !.options = Some(opts)]
      rejected == ExtractChecks(opts) IN
  IF IsSet(rejected) THEN Moved(c, Ends(Thrown(Get(rejected)), None, <<>>))
  ELSE IF ~Falsy(opts.pdfPath)
    THEN Moved([c EXCEPT !.via = "path", !.threshold = this.config.textThreshold],
               Awaits("readFile", "readFile", None, <<>>))
  ELSE Moved([c EXCEPT !.via = "buffer", !.threshold = this.config.textThreshold,
                       !.buffer = opts.pdfBuffer],
             parsePdfFromBufferEntry("buffer", Get(opts.pdfBuffer), <<>>))

\* the call c resumed with the answer to the capability it awaits, up to its
\* next await or its end
CallResume(this, c, reply) ==
  LET failed == reply.kind = "rejected"
      e == reply.error
      v == reply.value IN
  CASE c.pc = "readFile" ->
         IF failed THEN Moved(c, ParseRejects("path", e, c.calls))
         ELSE Moved([c EXCEPT !.buffer = Some(v)], parsePdfFromBufferEntry("path", v, c.calls))
    [] c.pc = "getText" ->
         IF failed THEN CallParseFinally(c, ParseCatch(e))
         ELSE Moved([c EXCEPT !.textResult = Some(v)], Awaits("getInfo", "getInfo", None, c.calls))
    [] c.pc = "getInfo" ->
         IF failed THEN CallParseFinally(c, ParseCatch(e))
         ELSE IF hasExtractableText(Get(c.textResult), Coalesce(c.threshold, DefaultTextThreshold))
           THEN CallParseFinally([c EXCEPT !.infoResult = Some(v)],
                                 Returned(ParsedText(Get(c.textResult), v)))
         ELSE Moved([c EXCEPT !.infoResult = Some(v)],
                    Awaits("destroyText", "destroy", None, c.calls))
    [] c.pc = "destroyText" ->
         IF failed THEN CallParseFinally(c, ParseCatch(e))
         ELSE Moved(c, Awaits("getScreenshot", "getScreenshot", None, c.calls))
    [] c.pc = "getScreenshot" ->
         IF failed THEN CallConvertFinally(c, ConvertCatch(e))
         ELSE CallConvertFinally(c, ConvertResult(v))
    [] c.pc = "destroyImage" ->
         IF failed THEN CallParseFinally(c, ParseCatch(e))
         ELSE IF Get(c.pending).kind = "thrown"
           THEN CallParseFinally(c, ParseCatch(Get(c.pending).error))
         ELSE CallParseFinally(c, Returned(ParsedImages(Get(c.pending).value,
                                                        Get(c.infoResult))))
    [] c.pc = "finallyDestroy" ->
         IF failed THEN Moved(c, ParseRejects(c.via, e, c.calls))
         ELSE IF Get(c.pending).kind = "thrown"
           THEN Moved(c, ParseRejects(c.via, Get(c.pending).error, c.calls))
         ELSE Moved(c, ParseResolves("extract", Some(this), c.options, Get(c.pending).value,
                                     c.calls))
    [] c.pc = "create" ->
         IF failed THEN Moved(c, ExtractFails(e, c.request, c.calls))
         ELSE Moved([c EXCEPT !.completion = Some(v)], ExtractResult(v, c.request, c.calls))

\* an extract that switches the extractor to its vision model when it sends a
\* VISION-mode request
ExtractorAfter_SwitchModel(this, c) ==
  IF c.pc = "create" /\ Has(c.calls, "getScreenshot")
    THEN [this EXCEPT !.textModel = this.visionModel]
  ELSE this

\* the extractor after a step of extract that left the call as c: extract,
\* extractFromText and extractFromImages assign no field of the extractor
ExtractorAfter(this, c) == this

ConcurrentConfigs ==
  { [BaseConfig EXCEPT !.textModel = Some("gpt-4o-mini"), !.visionModel = Some("gpt-4o"),
                       !.textThreshold = Some(1), !.visionEnabled = v] :
      v \in {None, Some(FALSE)} }

ConcurrentRequests ==
  { [BaseRequest EXCEPT !.temperature = Some(7)],
    [BaseRequest EXCEPT !.pdfPath = Some("doc.pdf"), !.pdfBuffer = None] }

\* what the capability a call awaits may answer
Replies(position) ==
  CASE position = "readFile" ->
         {Resolved(PdfSignature \o <<"-">>)}
    [] position = "getText" ->
         {Resolved(<<"a">>), Resolved(<<" ">>), Rejected(Err(<<"getText failed">>))}
    [] position = "getInfo" -> {Resolved([total |-> 1, info |-> "metadata"])}
    [] position = "getScreenshot" ->
         { Resolved(<<[pageNumber |-> 1, dataUrl |-> Some(PageDataUrl(1))]>>),
           Rejected(NonError("getScreenshot failed")) }
    [] position = "create" ->
         { Resolved([content |-> Some(JsonText), usage |-> Some([total_tokens |-> 42]),
                     model |-> "gpt-4o-mini-2024-07-18"]),
           Rejected(Err(<<"429 rate limit">>)) }
    [] position \in {"destroyText", "destroyImage", "finallyDestroy"} -> {Resolved(<<>>)}
    [] OTHER -> {}

\* call i is made: extractor.extract(opts) runs up to its first await (the calls
\* are numbered in the order they are made)
CallExtract(i, opts) ==
  /\ pc = "idle"
  /\ inflight[i] = NotStarted
  /\ i > 1 => inflight[i - 1] # NotStarted
  /\ LET c == CallStart(Get(extractor), opts) IN
     /\ inflight' = [inflight EXCEPT ![i] = c]
     /\ extractor' = Some(ExtractorAfter(Get(extractor), c))
  /\ UNCHANGED <<pc, caller, config, options, input, via, threshold, buffer, textResult,
                 infoResult, screenshotResult, pending, request, completion, outcome, calls,
                 lastSet>>

\* the capability call i awaits answers and call i runs up to its next await
CallContinue(i, reply) ==
  /\ pc = "idle"
  /\ LET c == [CallResume(Get(extractor), inflight[i], reply) EXCEPT
                 !.replies = Append(inflight[i].replies, reply)] IN
     /\ inflight' = [inflight EXCEPT ![i] = c]
     /\ extractor' = Some(ExtractorAfter(Get(extractor), c))
  /\ UNCHANGED <<pc, caller, config, options, input, via, threshold, buffer, textResult,
                 infoResult, screenshotResult, pending, request, completion, outcome, calls,
                 lastSet>>

NextConcurrent ==
  \/ pc = "start" /\ \E cfg \in ConcurrentConfigs : New(cfg)
  \/ pc = "idle" /\ \E i \in 1..NumCalls, opts \in ConcurrentRequests : CallExtract(i, opts)
  \/ pc = "idle" /\ \E i \in 1..NumCalls :
                      \E reply \in Replies(inflight[i].pc) : CallContinue(i, reply)

SpecConcurrent == Init /\ [][NextConcurrent]_vars

\* call c running alone on the extractor this with the answers replies
RECURSIVE Alone(_, _, _)
Alone(this, c, replies) ==
  IF replies = <<>> THEN c
  ELSE LET next == [CallResume(this, c, Head(replies)) EXCEPT
                      !.replies = Append(c.replies, Head(replies))] IN
       Alone(ExtractorAfter(this, next), next, Tail(replies))

\* the call extract(opts) made alone on a new extractor of the same configuration
AloneFromStart(cfg, opts, replies) ==
  LET this == NewExtractor(cfg)
      c == CallStart(this, opts) IN
  Alone(ExtractorAfter(this, c), c, replies)

====
